---- MODULE Spec2Model ----
(***************************************************************************)
(* oceanmesh/inpoly.py: the point-in-polygon query inpoly() and its        *)
(* crossing-number kernel _inpoly(), as a state machine of one call.       *)
(*                                                                         *)
(* Numbers.  Coordinates are integers of a small grid, on which every      *)
(* difference and product the kernel forms is exact in double precision,   *)
(* so the arithmetic below is that of the code.  The tolerance ftol is a   *)
(* rational <<num, den>>; lbar = sum(ddxy)/2 is kept doubled (lbar2) and   *)
(* every comparison against veps = ftol*lbar or feps = ftol*lbar**2 is     *)
(* cross-multiplied, so no fraction is ever rounded.  The algorithm is     *)
(* invariant under a common scaling of all coordinates (mul1, mul2 and     *)
(* feps scale with the square, veps with the scale itself), so the unit    *)
(* square with its half-unit query points is modelled at twice its size.   *)
(*                                                                         *)
(* Arrays are sequences (1-based); edge rows hold the code's 0-based node  *)
(* indices, negative ones included, exactly as the caller passes them.     *)
(***************************************************************************)
EXTENDS Integers, Sequences, FiniteSets, TLC

\* Longest query batch, the largest coordinate of a query point, and the longest
\* edge list whose rows are taken in every order.
MaxN == 2
GridMax == 3
MaxRows == 4

-----------------------------------------------------------------------------
(* Scalars *)

\* np.abs, np.minimum, np.maximum
Abs(a) == IF a < 0 THEN -a ELSE a
Min2(a, b) == IF a <= b THEN a ELSE b
Max2(a, b) == IF a >= b THEN a ELSE b

SetMin(S) == CHOOSE m \in S : \A x \in S : m <= x
SetMax(S) == CHOOSE m \in S : \A x \in S : m >= x

\* column 0 / column 1 of an N-by-2 array, as sets of values
Xs(P) == {P[k][1] : k \in DOMAIN P}
Ys(P) == {P[k][2] : k \in DOMAIN P}

\* a <= veps, where veps = ftol * (lbar ** +1) and lbar = lbar2 / 2
LeVeps(a, ftol, lbar2) == 2 * ftol[2] * a <= ftol[1] * lbar2

\* a <= feps, where feps = ftol * (lbar ** +2)
LeFeps(a, ftol, lbar2) == 4 * ftol[2] * a <= ftol[1] * lbar2 * lbar2

-----------------------------------------------------------------------------
(* inpoly(): the preprocessing *)

\* numpy's bounds check of an index into an axis of length M: -M <= i < M
IndexOkNoUpper(M, i) == -M <= i
IndexOk(M, i) == -M <= i /\ i < M

\* node[i, :], a negative index counting from the end
NodeAt(node, i) == node[(i % Len(node)) + 1]

\* the edge list when none is passed: rows k -> k+1, and the last row
\* (M-1, 0), its second column left at the zero np.zeros put there
DefaultEdgeOpen(M) == [k \in 1 .. M |-> IF k < M THEN <<k - 1, k>> ELSE <<M - 1, M - 1>>]
DefaultEdge(M) == [k \in 1 .. M |-> IF k < M THEN <<k - 1, k>> ELSE <<M - 1, 0>>]

\* mask: the query points inside the closed bounding box of the nodes
BboxMask(vert, node) ==
    [k \in DOMAIN vert |->
        /\ vert[k][1] >= SetMin(Xs(node))
        /\ vert[k][2] >= SetMin(Ys(node))
        /\ vert[k][1] <= SetMax(Xs(node))
        /\ vert[k][2] <= SetMax(Ys(node))]

\* how many of mask[1..k] are set: the row of vert[mask] that vert[k] becomes
Rank(mask, k) == Cardinality({j \in 1 .. k : mask[j]})

\* vert[mask, :]
Retain(vert, mask) ==
    [r \in 1 .. Rank(mask, Len(mask)) |->
        vert[CHOOSE k \in DOMAIN mask : mask[k] /\ Rank(mask, k) = r]]

\* ddxy = np.amax(vert, axis=0) - np.amin(vert, axis=0)
Ddxy(vert) ==
    <<SetMax(Xs(vert)) - SetMin(Xs(vert)), SetMax(Ys(vert)) - SetMin(Ys(vert))>>

\* P[:, (1, 0)]
SwapXY(P) == [k \in DOMAIN P |-> <<P[k][2], P[k][1]>>]

\* swap = node[edge[:, 1], 1] < node[edge[:, 0], 1];  edge[swap, :] = temp[:, (1, 0)]
OrientNone(node, edge) == edge
Orient(node, edge) ==
    [k \in DOMAIN edge |->
        IF NodeAt(node, edge[k][2])[2] < NodeAt(node, edge[k][1])[2]
            THEN <<edge[k][2], edge[k][1]>>
            ELSE edge[k]]

\* the permutations of 1..n
PermsOf ==
    [n \in 0 .. Max2(MaxN + 1, MaxRows) |->
        {p \in [1 .. n -> 1 .. n] : \A i, j \in 1 .. n : p[i] = p[j] => i = j}]
Perms(n) == PermsOf[n]

\* what np.argsort(vert[:, 1]) may return: the default sort is not stable, so
\* any permutation that puts the y-values in ascending order
SortPerms(vert) ==
    {p \in Perms(Len(vert)) :
        \A i, j \in 1 .. Len(vert) : i < j => vert[p[i]][2] <= vert[p[j]][2]}

\* a[ivec]
Gather(a, ivec) == [k \in DOMAIN ivec |-> a[ivec[k]]]

\* out[ivec] = tmp
UnpackForgotten(ivec, tmp) == tmp
Unpack(ivec, tmp) ==
    [i \in DOMAIN tmp |-> tmp[CHOOSE k \in DOMAIN ivec : ivec[k] = i]]

\* FULL[mask] = part
Scatter(FULL, mask, part) ==
    [k \in DOMAIN FULL |-> IF mask[k] THEN part[Rank(mask, k)] ELSE FULL[k]]

AllFalse(n) == [k \in 1 .. n |-> FALSE]

-----------------------------------------------------------------------------
(* _inpoly(): the crossing-number kernel *)

\* ione[epos] <= jpos < itwo[epos] (0-based jpos = j - 1): vert is sorted by y,
\* so searchsorted(.., YMIN, "left") counts the points with y < yone - veps and
\* searchsorted(.., YMAX, "right") those with y <= ytwo + veps
Ione(vert, yone, ftol, lbar2) ==
    Cardinality({j \in DOMAIN vert : ~LeVeps(yone - vert[j][2], ftol, lbar2)})
Itwo(vert, ytwo, ftol, lbar2) ==
    Cardinality({j \in DOMAIN vert : LeVeps(vert[j][2] - ytwo, ftol, lbar2)})

\* Mutants of the loop body, each a slip the kernel could have made.
PointStepNoLatch(s, b, p, one, two, ftol, lbar2) ==
    LET xpos == p[1]
        ypos == p[2]
        xone == one[1]
        yone == one[2]
        xtwo == two[1]
        ytwo == two[2]
        mul1 == (ytwo - yone) * (xpos - xone)
        mul2 == (xtwo - xone) * (ypos - yone)
    IN  IF xpos >= Min2(xone, xtwo)
            THEN IF LeVeps(xpos - Max2(xone, xtwo), ftol, lbar2)
                    THEN IF LeFeps(Abs(mul2 - mul1), ftol, lbar2) THEN <<TRUE, TRUE>>
                         ELSE IF ypos = yone /\ xpos = xone THEN <<TRUE, TRUE>>
                         ELSE IF ypos = ytwo /\ xpos = xtwo THEN <<TRUE, TRUE>>
                         ELSE IF mul1 < mul2 /\ ypos >= yone /\ ypos < ytwo THEN <<~s, b>>
                         ELSE <<s, b>>
                    ELSE <<s, b>>
            ELSE IF ypos >= yone /\ ypos < ytwo THEN <<~s, b>> ELSE <<s, b>>

PointStepNoStat(s, b, p, one, two, ftol, lbar2) ==
    LET xpos == p[1]
        ypos == p[2]
        xone == one[1]
        yone == one[2]
        xtwo == two[1]
        ytwo == two[2]
        mul1 == (ytwo - yone) * (xpos - xone)
        mul2 == (xtwo - xone) * (ypos - yone)
    IN  IF b THEN <<s, b>>
        ELSE IF xpos >= Min2(xone, xtwo)
            THEN IF LeVeps(xpos - Max2(xone, xtwo), ftol, lbar2)
                    THEN IF LeFeps(Abs(mul2 - mul1), ftol, lbar2) THEN <<s, TRUE>>
                         ELSE IF ypos = yone /\ xpos = xone THEN <<s, TRUE>>
                         ELSE IF ypos = ytwo /\ xpos = xtwo THEN <<s, TRUE>>
                         ELSE IF mul1 < mul2 /\ ypos >= yone /\ ypos < ytwo THEN <<~s, b>>
                         ELSE <<s, b>>
                    ELSE <<s, b>>
            ELSE IF ypos >= yone /\ ypos < ytwo THEN <<~s, b>> ELSE <<s, b>>

PointStepNoLeft(s, b, p, one, two, ftol, lbar2) ==
    LET xpos == p[1]
        ypos == p[2]
        xone == one[1]
        yone == one[2]
        xtwo == two[1]
        ytwo == two[2]
        mul1 == (ytwo - yone) * (xpos - xone)
        mul2 == (xtwo - xone) * (ypos - yone)
    IN  IF b THEN <<s, b>>
        ELSE IF xpos >= Min2(xone, xtwo)
            THEN IF LeVeps(xpos - Max2(xone, xtwo), ftol, lbar2)
                    THEN IF LeFeps(Abs(mul2 - mul1), ftol, lbar2) THEN <<TRUE, TRUE>>
                         ELSE IF ypos = yone /\ xpos = xone THEN <<TRUE, TRUE>>
                         ELSE IF ypos = ytwo /\ xpos = xtwo THEN <<TRUE, TRUE>>
                         ELSE IF mul1 < mul2 /\ ypos >= yone /\ ypos < ytwo THEN <<~s, b>>
                         ELSE <<s, b>>
                    ELSE <<s, b>>
            ELSE <<s, b>>

PointStepClosedRange(s, b, p, one, two, ftol, lbar2) ==
    LET xpos == p[1]
        ypos == p[2]
        xone == one[1]
        yone == one[2]
        xtwo == two[1]
        ytwo == two[2]
        mul1 == (ytwo - yone) * (xpos - xone)
        mul2 == (xtwo - xone) * (ypos - yone)
    IN  IF b THEN <<s, b>>
        ELSE IF xpos >= Min2(xone, xtwo)
            THEN IF LeVeps(xpos - Max2(xone, xtwo), ftol, lbar2)
                    THEN IF LeFeps(Abs(mul2 - mul1), ftol, lbar2) THEN <<TRUE, TRUE>>
                         ELSE IF ypos = yone /\ xpos = xone THEN <<TRUE, TRUE>>
                         ELSE IF ypos = ytwo /\ xpos = xtwo THEN <<TRUE, TRUE>>
                         ELSE IF mul1 < mul2 /\ ypos >= yone /\ ypos < ytwo THEN <<~s, b>>
                         ELSE <<s, b>>
                    ELSE <<s, b>>
            ELSE IF ypos >= yone /\ ypos <= ytwo THEN <<~s, b>> ELSE <<s, b>>

\* One pass of the inner loop's body: the point p = vert[jpos], whose flags
\* are (s, b) = (stat[jpos], bnds[jpos]), against the edge from `one` to `two`
\* (node[edge[epos, 0]] and node[edge[epos, 1]]).  The new <<stat[jpos], bnds[jpos]>>.
PointStep(s, b, p, one, two, ftol, lbar2) ==
    LET xpos == p[1]
        ypos == p[2]
        xone == one[1]
        yone == one[2]
        xtwo == two[1]
        ytwo == two[2]
        mul1 == (ytwo - yone) * (xpos - xone)
        mul2 == (xtwo - xone) * (ypos - yone)
    IN  IF b THEN <<s, b>>
        ELSE IF xpos >= Min2(xone, xtwo)
            THEN IF LeVeps(xpos - Max2(xone, xtwo), ftol, lbar2)
                    THEN IF LeFeps(Abs(mul2 - mul1), ftol, lbar2) THEN <<TRUE, TRUE>>
                         ELSE IF ypos = yone /\ xpos = xone THEN <<TRUE, TRUE>>
                         ELSE IF ypos = ytwo /\ xpos = xtwo THEN <<TRUE, TRUE>>
                         ELSE IF mul1 < mul2 /\ ypos >= yone /\ ypos < ytwo THEN <<~s, b>>
                         ELSE <<s, b>>
                    ELSE <<s, b>>
            ELSE IF ypos >= yone /\ ypos < ytwo THEN <<~s, b>> ELSE <<s, b>>

\* One pass of the outer loop's body: edge row e against every point of its
\* window.  sb[j] = <<stat[j], bnds[j]>>.
EdgePass(sb, vert, node, e, ftol, lbar2) ==
    LET one == NodeAt(node, e[1])
        two == NodeAt(node, e[2])
        lo == Ione(vert, one[2], ftol, lbar2)
        hi == Itwo(vert, two[2], ftol, lbar2)
    IN  [j \in DOMAIN sb |->
            LET cur == sb[j]
            IN  IF lo <= j - 1 /\ j - 1 < hi
                    THEN PointStep(cur[1], cur[2], vert[j], one, two, ftol, lbar2)
                    ELSE cur]

\* the outer loop from row epos + 1 on
RECURSIVE KernelFrom(_, _, _, _, _, _, _)
KernelFrom(sb, epos, vert, node, edge, ftol, lbar2) ==
    IF epos >= Len(edge) THEN sb
    ELSE KernelFrom(EdgePass(sb, vert, node, edge[epos + 1], ftol, lbar2),
                    epos + 1, vert, node, edge, ftol, lbar2)

\* _inpoly(vert, node, edge, ftol, lbar): <<stat[j], bnds[j]>> per sorted point
Kernel(vert, node, edge, ftol, lbar2) ==
    KernelFrom([j \in DOMAIN vert |-> <<FALSE, FALSE>>], 0, vert, node, edge, ftol, lbar2)

Col(sb, c) == [j \in DOMAIN sb |-> sb[j][c]]

-----------------------------------------------------------------------------
(* The inputs *)

Grid == (0 .. GridMax) \X (0 .. GridMax)

\* the query batches: every sequence of at most MaxN grid points
Batches == UNION {[1 .. n -> Grid] : n \in 0 .. MaxN}

\* ftol: zero; a stand-in for the default 5.0e-14 (any tolerance too small to
\* reach from one grid point to the next acts on the grid as the default does);
\* and one coarse enough to reach neighbouring grid points
FtolZero == <<0, 1>>
FtolDefault == <<1, 1000>>
FtolCoarse == <<1, 1>>
Ftols == {FtolZero, FtolDefault, FtolCoarse}

\* the unit square of the docstring's polygon, at twice its size
Square == <<<<0, 0>>, <<2, 0>>, <<2, 2>>, <<0, 2>>>>
SquareEdge == <<<<0, 1>>, <<1, 2>>, <<2, 3>>, <<3, 0>>>>
\* a non-convex quadrilateral
Dart == <<<<0, 0>>, <<4, 2>>, <<0, 4>>, <<2, 2>>>>
\* a triangle whose first node is repeated: its first edge has zero length
Repeated == <<<<2, 0>>, <<2, 0>>, <<3, 3>>, <<0, 2>>>>
\* a two-node contour: one segment, there and back
Segment == <<<<0, 0>>, <<2, 2>>>>

\* a call's polygon arguments: node, edge (given: whether one is passed) and
\* alias: whether the edge passed is already an ndarray, which np.asarray
\* returns as it is (a list is converted into a fresh array)
Poly(nd, gv, ed, al) == [node |-> nd, given |-> gv, edge |-> ed, alias |-> al]

\* polygons the kernel is run on
SoundPolys ==
    {Poly(Square, FALSE, <<>>, FALSE),
     Poly(Dart, TRUE, SquareEdge, TRUE),
     Poly(Repeated, FALSE, <<>>, FALSE),
     Poly(Segment, FALSE, <<>>, FALSE)}

\* the same edge list passed as an ndarray and as a list; one node, no node;
\* edge indices that are negative, or past the last node
OtherPolys ==
    {Poly(Square, TRUE, SquareEdge, TRUE),
     Poly(Square, TRUE, SquareEdge, FALSE),
     Poly(<<<<1, 1>>>>, FALSE, <<>>, FALSE),
     Poly(<<>>, FALSE, <<>>, FALSE),
     Poly(<<>>, TRUE, <<<<0, 0>>>>, TRUE),
     Poly(Square, TRUE, <<<<0, 1>>, <<1, 2>>, <<2, 3>>, <<3, -4>>>>, TRUE),
     Poly(Square, TRUE, <<<<0, 1>>, <<1, 2>>, <<2, 3>>, <<3, 4>>>>, TRUE),
     Poly(Square, TRUE, <<<<0, 1>>, <<1, 2>>, <<2, 3>>, <<3, -5>>>>, TRUE)}

-----------------------------------------------------------------------------
(* The state of one call *)

VARIABLES
    args,       \* the arguments as the caller passed them (never written)
    heapVert,   \* the caller's query points, node array and edge array
    heapNode,
    heapEdge,
    pc,         \* where the call is
    err,        \* the exception it raised
    vert,       \* inpoly's locals
    node,
    edge,
    mask,
    STAT,
    BNDS,
    ddxy,
    ivec,
    k_stat,     \* _inpoly's stat and bnds
    k_bnds,
    epos,
    stmp,
    btmp,
    stat,
    bnds,
    ret         \* the pair returned: <<STAT, BNDS>>

vars ==
    <<args, heapVert, heapNode, heapEdge, pc, err, vert, node, edge, mask, STAT, BNDS,
      ddxy, ivec, k_stat, k_bnds, epos, stmp, btmp, stat, bnds, ret>>

\* lbar = np.sum(ddxy) / 2.0, doubled
Lbar2 == ddxy[1] + ddxy[2]

InitWith(polys, batches, ftols) ==
    /\ \E p \in polys, v \in batches, f \in ftols :
          /\ args = [vert |-> v, node |-> p.node, given |-> p.given, edge |-> p.edge,
                     alias |-> p.alias, ftol |-> f]
          /\ heapVert = v
          /\ heapNode = p.node
          /\ heapEdge = p.edge
    /\ pc = "call"
    /\ err = "none"
    /\ vert = <<>>
    /\ node = <<>>
    /\ edge = <<>>
    /\ mask = <<>>
    /\ STAT = <<>>
    /\ BNDS = <<>>
    /\ ddxy = <<0, 0>>
    /\ ivec = <<>>
    /\ k_stat = <<>>
    /\ k_bnds = <<>>
    /\ epos = 0
    /\ stmp = <<>>
    /\ btmp = <<>>
    /\ stat = <<>>
    /\ bnds = <<>>
    /\ ret = <<>>

Init ==
    \/ InitWith(SoundPolys, Batches, Ftols)
    \/ InitWith(OtherPolys, Batches, {FtolDefault})

Raise(e) == pc' = "raised" /\ err' = e

\* lines 65-78: np.asarray, and the default edge list.  Without nodes its last
\* row does not exist: edge[-1, 0] raises IndexError.
SetEdges ==
    /\ pc = "call"
    /\ vert' = heapVert
    /\ node' = heapNode
    /\ IF ~args.given /\ Len(heapNode) = 0
          THEN Raise("IndexError") /\ edge' = edge
          ELSE /\ edge' = IF args.given THEN heapEdge ELSE DefaultEdge(Len(heapNode))
               /\ pc' = "prune"
               /\ err' = err
    /\ UNCHANGED <<args, heapVert, heapNode, heapEdge, mask, STAT, BNDS, ddxy, ivec,
                   k_stat, k_bnds, epos, stmp, btmp, stat, bnds, ret>>

\* lines 80-93: the outputs, all False, and the bounding-box prune.  np.nanmin of
\* an empty column raises ValueError.
Prune ==
    /\ pc = "prune"
    /\ STAT' = AllFalse(Len(vert))
    /\ BNDS' = AllFalse(Len(vert))
    /\ IF Len(node) = 0
          THEN Raise("ValueError") /\ UNCHANGED <<mask, vert>>
          ELSE /\ mask' = BboxMask(vert, node)
               /\ vert' = Retain(vert, mask')
               /\ pc' = "flip"
               /\ err' = err
    /\ UNCHANGED <<args, heapVert, heapNode, heapEdge, node, edge, ddxy, ivec,
                   k_stat, k_bnds, epos, stmp, btmp, stat, bnds, ret>>

\* lines 95-104: the extents of the points kept, and the x/y swap.  np.amin of
\* an array without rows raises ValueError.
Flip ==
    /\ pc = "flip"
    /\ IF Len(vert) = 0
          THEN Raise("ValueError") /\ UNCHANGED <<ddxy, vert, node>>
          ELSE /\ ddxy' = Ddxy(vert)
               /\ IF ddxy'[1] > ddxy'[2]
                     THEN vert' = SwapXY(vert) /\ node' = SwapXY(node)
                     ELSE UNCHANGED <<vert, node>>
               /\ pc' = "orient"
               /\ err' = err
    /\ UNCHANGED <<args, heapVert, heapNode, heapEdge, edge, mask, STAT, BNDS, ivec,
                   k_stat, k_bnds, epos, stmp, btmp, stat, bnds, ret>>

\* lines 106-109: every edge turned to run upwards in y, written into `edge`
\* itself, which is the caller's array when np.asarray returned it as it was.
\* An index numpy cannot resolve raises IndexError.
OrientEdges ==
    /\ pc = "orient"
    /\ IF \E k \in DOMAIN edge : \E c \in 1 .. 2 : ~IndexOk(Len(node), edge[k][c])
          THEN Raise("IndexError") /\ UNCHANGED <<edge, heapEdge>>
          ELSE /\ edge' = Orient(node, edge)
               /\ heapEdge' = IF args.alias THEN edge' ELSE heapEdge
               /\ pc' = "sort"
               /\ err' = err
    /\ UNCHANGED <<args, heapVert, heapNode, vert, node, mask, STAT, BNDS, ddxy, ivec,
                   k_stat, k_bnds, epos, stmp, btmp, stat, bnds, ret>>

\* lines 111-112: ivec = np.argsort(vert[:, 1]);  vert = vert[ivec]
Sort ==
    /\ pc = "sort"
    /\ \E p \in SortPerms(vert) :
          /\ ivec' = p
          /\ vert' = Gather(vert, p)
    /\ pc' = "kernel"
    /\ UNCHANGED <<args, heapVert, heapNode, heapEdge, err, node, edge, mask, STAT, BNDS,
                   ddxy, k_stat, k_bnds, epos, stmp, btmp, stat, bnds, ret>>

\* lines 115, 140-163: _inpoly is entered; stat and bnds all False
KernelEnter ==
    /\ pc = "kernel"
    /\ k_stat' = AllFalse(Len(vert))
    /\ k_bnds' = AllFalse(Len(vert))
    /\ epos' = 0
    /\ pc' = "loop"
    /\ UNCHANGED <<args, heapVert, heapNode, heapEdge, err, vert, node, edge, mask, STAT,
                   BNDS, ddxy, ivec, stmp, btmp, stat, bnds, ret>>

\* lines 166-215: one edge, against every point of its y-window
KernelEdge ==
    /\ pc = "loop"
    /\ epos < Len(edge)
    /\ LET sb == EdgePass([j \in DOMAIN vert |-> <<k_stat[j], k_bnds[j]>>],
                          vert, node, edge[epos + 1], args.ftol, Lbar2)
       IN  /\ k_stat' = Col(sb, 1)
           /\ k_bnds' = Col(sb, 2)
    /\ epos' = epos + 1
    /\ UNCHANGED <<args, heapVert, heapNode, heapEdge, pc, err, vert, node, edge, mask,
                   STAT, BNDS, ddxy, ivec, stmp, btmp, stat, bnds, ret>>

\* lines 217, 115: stmp, btmp = _inpoly(...)
KernelReturn ==
    /\ pc = "loop"
    /\ epos = Len(edge)
    /\ stmp' = k_stat
    /\ btmp' = k_bnds
    /\ pc' = "unpack"
    /\ UNCHANGED <<args, heapVert, heapNode, heapEdge, err, vert, node, edge, mask, STAT,
                   BNDS, ddxy, ivec, k_stat, k_bnds, epos, stat, bnds, ret>>

\* lines 117-122: stat[ivec] = stmp;  bnds[ivec] = btmp
UnpackSort ==
    /\ pc = "unpack"
    /\ stat' = Unpack(ivec, stmp)
    /\ bnds' = Unpack(ivec, btmp)
    /\ pc' = "scatter"
    /\ UNCHANGED <<args, heapVert, heapNode, heapEdge, err, vert, node, edge, mask, STAT,
                   BNDS, ddxy, ivec, k_stat, k_bnds, epos, stmp, btmp, ret>>

\* lines 124-127: STAT[mask] = stat;  BNDS[mask] = bnds;  return STAT, BNDS
ScatterReturn ==
    /\ pc = "scatter"
    /\ STAT' = Scatter(STAT, mask, stat)
    /\ BNDS' = Scatter(BNDS, mask, bnds)
    /\ ret' = <<STAT', BNDS'>>
    /\ pc' = "returned"
    /\ UNCHANGED <<args, heapVert, heapNode, heapEdge, err, vert, node, edge, mask,
                   ddxy, ivec, k_stat, k_bnds, epos, stmp, btmp, stat, bnds>>

Next ==
    \/ SetEdges
    \/ Prune
    \/ Flip
    \/ OrientEdges
    \/ Sort
    \/ KernelEnter
    \/ KernelEdge
    \/ KernelReturn
    \/ UnpackSort
    \/ ScatterReturn

Spec == Init /\ [][Next]_vars

-----------------------------------------------------------------------------
(* inpoly() as a function of its arguments, for the claims that relate two   *)
(* calls.  It composes the operators the actions above apply, with one       *)
(* sorting permutation fixed.                                                *)

Failed == [ok |-> FALSE, STAT |-> <<>>, BNDS |-> <<>>]

\* inpoly(v, nd, ed, ftol); `other` makes the call take the branch of the
\* x/y swap (lines 102-104) that its extents do not select
InpolyFlip(v, nd, gv, ed, ftol, other) ==
    IF Len(nd) = 0 THEN Failed
    ELSE
        LET e0 == IF gv THEN ed ELSE DefaultEdge(Len(nd))
            m == BboxMask(v, nd)
            kept == Retain(v, m)
        IN  IF Len(kept) = 0 THEN Failed
            ELSE IF \E k \in DOMAIN e0 : \E c \in 1 .. 2 : ~IndexOk(Len(nd), e0[k][c])
                THEN Failed
            ELSE
                LET d == Ddxy(kept)
                    flip == (d[1] > d[2]) # other
                    v1 == IF flip THEN SwapXY(kept) ELSE kept
                    n1 == IF flip THEN SwapXY(nd) ELSE nd
                    e1 == Orient(n1, e0)
                    iv == CHOOSE p \in SortPerms(v1) : TRUE
                    sb == Kernel(Gather(v1, iv), n1, e1, ftol, d[1] + d[2])
                IN  [ok |-> TRUE,
                     STAT |-> Scatter(AllFalse(Len(v)), m, Unpack(iv, Col(sb, 1))),
                     BNDS |-> Scatter(AllFalse(Len(v)), m, Unpack(iv, Col(sb, 2)))]

Inpoly(v, nd, gv, ed, ftol) == InpolyFlip(v, nd, gv, ed, ftol, FALSE)

-----------------------------------------------------------------------------
(* What the claims speak of *)

N == Len(args.vert)
M == Len(args.node)

\* the edge indices the caller supplied
SuppliedIndices ==
    IF args.given THEN {args.edge[k][c] : k \in DOMAIN args.edge, c \in 1 .. 2} ELSE {}

\* the call has reached _inpoly, or is past it
InKernelOrAfter == pc \in {"kernel", "loop", "unpack", "scatter", "returned"}

Finished == pc \in {"returned", "raised"}

\* strictly outside the bounding box of the polygon nodes
OutsideBox(p) ==
    \/ p[1] < SetMin(Xs(args.node))
    \/ p[1] > SetMax(Xs(args.node))
    \/ p[2] < SetMin(Ys(args.node))
    \/ p[2] > SetMax(Ys(args.node))

\* the preconditions the interface states: N >= 1, M >= 2, edge indices in [0, M)
WellFormed == N >= 1 /\ M >= 2 /\ \A i \in SuppliedIndices : 0 <= i /\ i < M

Implies(b, s) == \A k \in DOMAIN b : b[k] => s[k]

\* C1: on_boundary[k] implies inside[k] in every state the kernel reaches and for
\* every array the flags are copied to, the returned pair included; and while the
\* kernel runs, a point whose boundary flag is set keeps both its flags.
C1_BoundaryImpliesInside ==
    /\ [](/\ Implies(k_bnds, k_stat)
          /\ Implies(btmp, stmp)
          /\ Implies(bnds, stat)
          /\ Implies(BNDS, STAT)
          /\ (pc = "returned" => Implies(ret[2], ret[1])))
    /\ [][pc = "loop" =>
            \A k \in DOMAIN k_bnds : k_bnds[k] => (k_bnds'[k] /\ k_stat'[k] = k_stat[k])]_vars

\* a point is latched on the boundary and at least one more edge has been
\* processed since
C1_Witness ==
    /\ pc = "returned"
    /\ \E j \in DOMAIN btmp : \E a, b \in DOMAIN edge :
          /\ a < b
          /\ btmp[j]
          /\ EdgePass([i \in DOMAIN vert |-> <<FALSE, FALSE>>], vert, node, edge[a],
                      args.ftol, Lbar2)[j][2]
          /\ PointStepNoLatch(FALSE, FALSE, vert[j], NodeAt(node, edge[b][1]),
                              NodeAt(node, edge[b][2]), args.ftol, Lbar2) = <<TRUE, FALSE>>

C3_OutsideBoxIsFalse ==
    (Finished /\ WellFormed)
        => (/\ pc = "returned"
            /\ \A k \in 1 .. N :
                  OutsideBox(args.vert[k]) => (~ret[1][k] /\ ~ret[2][k]))

\* C4, as claimed: after a call on well-formed arguments returns, the caller's
\* query points, nodes and edge list hold what they held before the call.
C4_InputsUnchanged ==
    (pc = "returned" /\ WellFormed)
        => (/\ heapVert = args.vert
            /\ heapNode = args.node
            /\ (args.given => heapEdge = args.edge))

\* batches of three points, among them points of equal x and of equal y
Probes == {<<1, 1>>, <<0, 1>>, <<2, 1>>, <<1, 2>>, <<3, 1>>, <<3, 2>>}
Triples == [1 .. 3 -> Probes]

InitOrder ==
    \/ InitWith({Poly(Square, FALSE, <<>>, FALSE)}, Triples \cup Batches, {FtolDefault, FtolCoarse})
    \/ InitWith({Poly(Dart, TRUE, SquareEdge, FALSE)}, Triples \cup Batches, {FtolCoarse})

SpecOrder == InitOrder /\ [][Next]_vars

\* what happened, in the shape Inpoly reports it
Outcome ==
    IF pc = "returned" THEN [ok |-> TRUE, STAT |-> ret[1], BNDS |-> ret[2]] ELSE Failed

\* C5: both arrays have length N, and the call on any permutation p of the batch
\* ends as this one does, with this one's outputs permuted by p.
C5_PermutationEquivariant ==
    Finished =>
        /\ pc = "returned" => (Len(ret[1]) = N /\ Len(ret[2]) = N)
        /\ \A p \in Perms(N) :
              LET o == Inpoly(Gather(args.vert, p), args.node, args.given, args.edge,
                              args.ftol)
              IN  /\ o.ok = Outcome.ok
                  /\ o.ok => (/\ o.STAT = Gather(Outcome.STAT, p)
                              /\ o.BNDS = Gather(Outcome.BNDS, p))

\* three points kept, two of them of equal sweep coordinate and sorted into the
\* order opposite to the caller's, one on the boundary and one not
C5_Witness ==
    /\ pc = "returned"
    /\ N = 3
    /\ \E i, j \in DOMAIN ivec :
          /\ i < j
          /\ ivec[i] > ivec[j]
          /\ vert[i][2] = vert[j][2]
          /\ btmp[i] # btmp[j]

-----------------------------------------------------------------------------
(* Regions with a hole *)

\* the outer contour, and two holes inside it
Outer == <<<<0, 0>>, <<4, 0>>, <<4, 4>>, <<0, 4>>>>
Diamond == <<<<2, 1>>, <<3, 2>>, <<2, 3>>, <<1, 2>>>>
Triangle == <<<<1, 1>>, <<3, 1>>, <<2, 3>>>>

\* the outer contour counter-clockwise and the hole clockwise, one after the other
DiamondRegion ==
    Poly(Outer \o Diamond, TRUE,
         <<<<0, 1>>, <<1, 2>>, <<2, 3>>, <<3, 0>>, <<4, 7>>, <<7, 6>>, <<6, 5>>, <<5, 4>>>>,
         TRUE)
\* the same, the rows of the two contours interleaved
TriangleRegion ==
    Poly(Outer \o Triangle, TRUE,
         <<<<0, 1>>, <<4, 6>>, <<1, 2>>, <<6, 5>>, <<2, 3>>, <<5, 4>>, <<3, 0>>>>,
         TRUE)

HolePolys == {DiamondRegion, TriangleRegion}

\* strictly inside the hole of the region the call was given
InHole(p) ==
    IF args.node = DiamondRegion.node
        THEN Abs(p[1] - 2) + Abs(p[2] - 2) < 1
        ELSE p[2] > 1 /\ 2 * (p[1] - 1) > p[2] - 1 /\ 2 * (3 - p[1]) > p[2] - 1

\* on the hole's contour or inside it
InClosedHole(p) ==
    IF args.node = DiamondRegion.node
        THEN Abs(p[1] - 2) + Abs(p[2] - 2) <= 1
        ELSE p[2] >= 1 /\ 2 * (p[1] - 1) >= p[2] - 1 /\ 2 * (3 - p[1]) >= p[2] - 1

\* strictly between the two contours
Between(p) ==
    /\ 0 < p[1] /\ p[1] < 4
    /\ 0 < p[2] /\ p[2] < 4
    /\ ~InClosedHole(p)

SpecHole == InitWith(HolePolys, Batches, Ftols) /\ [][Next]_vars

\* C6, as claimed: a point strictly inside the hole has inside = false, a point
\* strictly between the contours inside = true.
C6_HoleIsOutside ==
    pc = "returned" =>
        \A k \in 1 .. N :
            /\ InHole(args.vert[k]) => ~ret[1][k]
            /\ Between(args.vert[k]) => ret[1][k]

\* C6, amended: a point strictly inside the hole has inside = false unless the
\* tolerance puts it on the boundary (never, for a zero tolerance); a point
\* strictly between the contours has inside = true.
C6_HoleIsOutsideUnlessOnBoundary ==
    pc = "returned" =>
        \A k \in 1 .. N :
            /\ InHole(args.vert[k]) => (~ret[1][k] \/ ret[2][k])
            /\ (InHole(args.vert[k]) /\ args.ftol = FtolZero) => ~ret[1][k]
            /\ Between(args.vert[k]) => ret[1][k]

\* one point in the hole, reported outside, and one between the contours,
\* reported inside and off the boundary
C6_Witness ==
    /\ pc = "returned"
    /\ \E k, l \in 1 .. N :
          /\ InHole(args.vert[k]) /\ ~ret[1][k]
          /\ Between(args.vert[l]) /\ ret[1][l] /\ ~ret[2][l]

-----------------------------------------------------------------------------
(* The unit square *)

\* (0.5, 0.5), (0, 0.5), (2, 2) and (0, 0), doubled like the square
UnitBatch == <<<<1, 1>>, <<0, 1>>, <<4, 4>>, <<0, 0>>>>

SpecSquare ==
    /\ InitWith({Poly(Square, FALSE, <<>>, FALSE)},
                {Gather(UnitBatch, p) : p \in Perms(4)}, {FtolDefault})
    /\ [][Next]_vars

\* C7: the square with the default edge list classifies (0.5, 0.5) inside and
\* off the boundary, (0, 0.5) and (0, 0) inside and on it, (2, 2) outside.
C7_UnitSquare ==
    pc = "returned" =>
        \A k \in 1 .. N :
            <<ret[1][k], ret[2][k]>> =
                CASE args.vert[k] = <<1, 1>> -> <<TRUE, FALSE>>
                  [] args.vert[k] = <<0, 1>> -> <<TRUE, TRUE>>
                  [] args.vert[k] = <<4, 4>> -> <<FALSE, FALSE>>
                  [] args.vert[k] = <<0, 0>> -> <<TRUE, TRUE>>

\* the four points, in the order the claim lists them, have been classified
C7_Witness ==
    /\ pc = "returned"
    /\ args.vert = UnitBatch
    /\ edge = <<<<0, 1>>, <<1, 2>>, <<2, 3>>, <<0, 3>>>>

-----------------------------------------------------------------------------
(* Edges *)

\* row k of edge joins two nodes of the same coordinates
Degenerate(k) == NodeAt(node, edge[k][1]) = NodeAt(node, edge[k][2])

\* point j lies where the tolerance lets edge row k see it: in the row's
\* y-window and between xmin and xmax + veps
AtEdge(j, k) ==
    LET one == NodeAt(node, edge[k][1])
    IN  /\ LeVeps(Abs(vert[j][2] - one[2]), args.ftol, Lbar2)
        /\ vert[j][1] >= one[1]
        /\ LeVeps(vert[j][1] - one[1], args.ftol, Lbar2)

\* C8, as claimed: the kernel's pass over a degenerate edge leaves every inside
\* flag as it was.
C8_DegenerateEdgeChangesNothing ==
    [][(pc = "loop" /\ epos < Len(edge) /\ Degenerate(epos + 1)) => k_stat' = k_stat]_vars

\* C8, amended: the kernel's pass over a degenerate edge toggles no inside flag;
\* the only flags it changes are those of a point at the edge's coordinates (to
\* the tolerance) whose boundary flag is not set yet: both become true.
C8_DegenerateEdgeOnlyLatches ==
    [][(pc = "loop" /\ epos < Len(edge) /\ Degenerate(epos + 1)) =>
          \A j \in DOMAIN k_stat :
              \/ k_stat'[j] = k_stat[j] /\ k_bnds'[j] = k_bnds[j] /\ (k_bnds[j] \/ ~AtEdge(j, epos + 1))
              \/ AtEdge(j, epos + 1) /\ ~k_bnds[j] /\ k_stat'[j] /\ k_bnds'[j]]_vars

\* a degenerate edge has just been processed, with one point at its
\* coordinates, now on the boundary, and another point elsewhere, untouched
C8_Witness ==
    /\ pc = "loop"
    /\ epos = 1
    /\ Degenerate(1)
    /\ \E i, j \in DOMAIN vert :
          /\ vert[j] = NodeAt(node, edge[1][1])
          /\ k_bnds[j]
          /\ k_stat[j]
          /\ ~AtEdge(i, 1)
          /\ ~k_stat[i]

InitEdges ==
    \/ InitWith({Poly(Dart, TRUE, SquareEdge, TRUE)}, Batches, {FtolCoarse})
    \/ InitWith({Poly(Repeated, FALSE, <<>>, FALSE)}, Batches, {FtolDefault})

SpecEdges == InitEdges /\ [][Next]_vars

\* what edge row k alone does to point j
EffectOn(j, k) ==
    EdgePass([i \in DOMAIN vert |-> <<FALSE, FALSE>>], vert, node, edge[k], args.ftol, Lbar2)[j]

\* C9: the kernel run on any permutation of the rows of edge ends with the flags
\* this run ended with.
C9_EdgeOrderIndependent ==
    pc = "unpack" =>
        \A q \in Perms(Len(edge)) :
            Kernel(vert, node, Gather(edge, q), args.ftol, Lbar2)
                = [j \in DOMAIN vert |-> <<stmp[j], btmp[j]>>]

\* a point that one row puts on the boundary and a later row would have toggled
C9_Witness ==
    /\ pc = "unpack"
    /\ \E j \in DOMAIN vert : \E a, b \in DOMAIN edge :
          /\ a < b
          /\ EffectOn(j, a) = <<TRUE, TRUE>>
          /\ EffectOn(j, b) = <<TRUE, FALSE>>

SpecSwap == InitWith(SoundPolys, Batches, {FtolZero, FtolCoarse}) /\ [][Next]_vars

\* every point of the plane ends an even number of edges: the edges form closed
\* contours
ClosedContours ==
    \A c \in {node[i] : i \in DOMAIN node} :
        Cardinality({kc \in (DOMAIN edge) \X (1 .. 2) :
                        NodeAt(node, edge[kc[1]][kc[2]]) = c}) % 2 = 0

\* the call, had it taken the other branch of the x/y swap
OtherBranch ==
    InpolyFlip(args.vert, args.node, args.given, args.edge, args.ftol, TRUE)

\* C10, as claimed: for closed contours the call returns the pair it would have
\* returned had it taken the other branch of the x/y swap, whatever the tolerance.
C10_SwapIsOnlyAHeuristic ==
    (pc = "returned" /\ ClosedContours) => OtherBranch = Outcome

\* C10, amended: for closed contours and a zero tolerance the two branches
\* return the same pair; for any tolerance they agree on the inside flag of every
\* point that neither puts on the boundary.
C10_SwapIsOnlyAHeuristicAtZeroTolerance ==
    (pc = "returned" /\ ClosedContours) =>
        LET o == OtherBranch
        IN  /\ o.ok
            /\ args.ftol = FtolZero => o = Outcome
            /\ \A k \in 1 .. N : (~o.BNDS[k] /\ ~ret[2][k]) => o.STAT[k] = ret[1][k]

\* the swap was taken, for a batch with a point inside, a point on the boundary
\* and a zero tolerance
C10_Witness ==
    /\ pc = "returned"
    /\ ClosedContours
    /\ args.ftol = FtolZero
    /\ ddxy[1] > ddxy[2]
    /\ \E k, l \in 1 .. N : ret[2][k] /\ ret[1][l] /\ ~ret[2][l]

====
